---- MODULE Spec2Model ----
(***************************************************************************)
(* The serverless LIFO queue: the task table (QueueTable and its           *)
(* task-status-created-index), the producer (create_tasks.js), the worker  *)
(* (process_tasks.js), the trigger relay (trigger.js) and the SNS hop      *)
(* (call_function.js).                                                     *)
(*                                                                         *)
(* Time is a clock of abstract ticks; DateTime.now() reads it.  Timers     *)
(* (setTimeout) fire in the order of their delays but after an arbitrary   *)
(* number of ticks.  Every awaited AWS call is one atomic step that either *)
(* takes effect ("ok") or fails with an I/O error ("error") nothing of     *)
(* which reached the table or the topic.                                   *)
(***************************************************************************)
EXTENDS Integers, Sequences, FiniteSets, TLC

VARIABLES
    now,              \* the wall clock, in ticks
    store,            \* QueueTable: taskId -> item, or NoTask
    born,             \* history: the clock when createTask first wrote the id
    issued,           \* how many ids uuidv4() has handed out
    streamInserts,    \* INSERT records of the table's stream not yet delivered
    triggerTopic,     \* messages in flight on TriggerTopic (hand-offs)
    processTopic,     \* messages in flight on ProcessTasksTopic (dispatches)
    pc,               \* per activation slot: where the handler stands
    start,            \* per slot: handler's `start`
    reachedTimeLimit, \* per slot: processTasks' `reachedTimeLimit`
    tasks,            \* per slot: the result of the last getPendingTaskBatch
    proc,             \* per slot: one processTask per task of the batch being processed
    handoffs,         \* per slot: callFunction calls on TriggerTopic by this activation
    batchLog,         \* history (scenario specifications only): the batches processed
    recursed,         \* per slot, on the way out: processTasks had called itself
    trigger,          \* the trigger function's invocation: its event, its progress
    faulted,          \* history: a call to the table has failed
    activeTaskCount,  \* task_runner.js: the fake runner's count of running tasks
    runs              \* the calls of fakeTaskRunner: not made, running, or returned

vars == <<now, store, born, issued, streamInserts, triggerTopic, processTopic,
          pc, start, reachedTimeLimit, tasks, proc, handoffs, batchLog,
          recursed, trigger, faulted, activeTaskCount, runs>>

(***************************************************************************)
(* Bounds of the model: how many tasks the producer creates, how far the   *)
(* clock runs, how many activations overlap, how many tasks they race for, *)
(* and the latest creation time of a preloaded backlog.                    *)
(***************************************************************************)
MaxTasks == 2
MaxTime == 1
MaxWorkers == 2
MaxRaceTasks == 1
MaxCreated == 2
MaxRecords == 3
MaxLiveTasks == 1
MaxRuns == 4

(***************************************************************************)
(* The source's CONFIG values, scaled to the model: pageLimit is 10 tasks  *)
(* in process_tasks.js, maxActiveTime 59 * 1000 ms, and the ttl of         *)
(* create_tasks.js 1 hour; here a page holds 2 tasks and both durations    *)
(* are 1 tick of the clock.                                                *)
(***************************************************************************)
pageLimit == 2
maxActiveTime == 1
ttlAmount == 1

\* task_runner.js CONFIG.fakeMaxActiveTasks, as in the source.
fakeMaxActiveTasks == 3

Workers == 1..MaxWorkers
TaskIds == 1..(2 * pageLimit + 2)
IoResults == {"ok", "error"}
RunnerResults == {"SUCCESS", "FAILURE", "PENDING", "THROW"}
TaskStatuses == {"PENDING", "TAKEN", "SUCCESS", "FAILURE"}
Runs == 1..MaxRuns

NoInvocation == [event |-> [hasRecords |-> FALSE, Records |-> <<>>], st |-> "none", calls |-> 0]
NoTask == [taskStatus |-> "NONE", taskCreated |-> 0, taskUpdated |-> 0, ttl |-> 0]

Min(a, b) == IF a <= b THEN a ELSE b
Abs(x) == IF x < 0 THEN 0 - x ELSE x

\* ------------------------------------------------------------------ store

\* The item createTask puts: PENDING, created = updated = now, ttl = now + horizon.
NewItem(t) ==
    [taskStatus |-> "PENDING", taskCreated |-> t, taskUpdated |-> t, ttl |-> t + ttlAmount]

\* PutItemCommand with no ConditionExpression: the item is written whether or
\* not the key exists.
PutItem(st, taskId, item) == [st EXCEPT ![taskId] = item]

\* Fault: a condition that only asks for the item to exist.
ConditionHolds_ItemExists(item, fromTaskStatus) == item # NoTask

\* ConditionExpression "taskStatus = :fromTaskStatus": false too when the item
\* is gone (the attribute does not exist).
ConditionHolds(item, fromTaskStatus) ==
    item # NoTask /\ item.taskStatus = fromTaskStatus

\* Fault: an update that also stamps taskCreated.
UpdateItem_ResetsCreated(st, taskId, toTaskStatus, t) ==
    [st EXCEPT ![taskId].taskStatus = toTaskStatus,
               ![taskId].taskUpdated = t,
               ![taskId].taskCreated = t]

\* Fault: an update that also pushes the ttl out.
UpdateItem_RenewsTtl(st, taskId, toTaskStatus, t) ==
    [st EXCEPT ![taskId].taskStatus = toTaskStatus,
               ![taskId].taskUpdated = t,
               ![taskId].ttl = t + ttlAmount]

\* UpdateExpression 'set taskStatus = :toTaskStatus, taskUpdated = :taskUpdated'.
UpdateItem(st, taskId, toTaskStatus, t) ==
    [st EXCEPT ![taskId].taskStatus = toTaskStatus, ![taskId].taskUpdated = t]

\* Fault: an update sent without its ConditionExpression.
transitionOk_NoCondition(st, taskId, fromTaskStatus, io) == io = "ok"

\* transitionTask's return value: the update went through.
transitionOk(st, taskId, fromTaskStatus, io) ==
    io = "ok" /\ ConditionHolds(st[taskId], fromTaskStatus)

\* Fault: an update that writes whenever the call goes through, so that it
\* puts an item where there was none.
transitionTask_Upsert(st, taskId, fromTaskStatus, toTaskStatus, t, io) ==
    IF io = "ok" THEN UpdateItem(st, taskId, toTaskStatus, t) ELSE st

\* The error UpdateItemCommand rejects with.  Errors of the SDK's v3 clients
\* (@aws-sdk/client-dynamodb) name their kind in `name`; they have no `code`.
UpdateItemError(st, taskId, fromTaskStatus, io) ==
    IF io = "error"
    THEN [name |-> "InternalServerError", code |-> "undefined"]
    ELSE [name |-> "ConditionalCheckFailedException", code |-> "undefined"]

\* The events transitionTask logs.
transitionEvents(st, taskId, fromTaskStatus, io) ==
    IF transitionOk(st, taskId, fromTaskStatus, io)
    THEN {"TRANSITION_TASK"}
    ELSE LET err == UpdateItemError(st, taskId, fromTaskStatus, io) IN
         (IF err.code # "ConditionalCheckFailedException"
          THEN {"TRANSITION_TASK_ERROR"} ELSE {})
         \cup {"TRANSITION_TASK_FAILED"}

\* transitionTask's effect on the table.
transitionTask(st, taskId, fromTaskStatus, toTaskStatus, t, io) ==
    IF transitionOk(st, taskId, fromTaskStatus, io)
    THEN UpdateItem(st, taskId, toTaskStatus, t)
    ELSE st

\* Fault: TAKEN items answer under every status (a reclaim path).
IndexPartition_WithTaken(st, status) ==
    {t \in TaskIds : st[t] # NoTask /\ st[t].taskStatus \in {status, "TAKEN"}}

\* The partition of task-status-created-index for one status.
IndexPartition(st, status) == {t \in TaskIds : st[t] # NoTask /\ st[t].taskStatus = status}

\* The orders in which a scan of the partition may meet its items: by the
\* range key taskCreated, descending unless ScanIndexForward; items of equal
\* taskCreated in any order.
IndexScan(st, status, forward) ==
    LET P == IndexPartition(st, status)
        n == Cardinality(P)
    IN  {f \in [1..n -> P] :
            /\ \A i, j \in 1..n : i # j => f[i] # f[j]
            /\ \A i, j \in 1..n : i < j =>
                  IF forward THEN st[f[i]].taskCreated <= st[f[j]].taskCreated
                             ELSE st[f[i]].taskCreated >= st[f[j]].taskCreated}

\* Fault: a query sent without Limit.
Query_NoLimit(st, status, limit, forward) == IndexScan(st, status, forward)

\* QueryCommand with Limit: the first `limit` items of the scan.
Query(st, status, limit, forward) ==
    {SubSeq(f, 1, Min(limit, Len(f))) : f \in IndexScan(st, status, forward)}

\* Fault: the query sent with ScanIndexForward true (oldest first).
getPendingTaskBatch_Ascending(st, io) ==
    IF io = "ok" THEN Query(st, "PENDING", pageLimit, TRUE) ELSE {<<>>}

\* getPendingTaskBatch: the page of PENDING tasks, newest first; [] when the
\* query fails.
getPendingTaskBatch(st, io) ==
    IF io = "ok" THEN Query(st, "PENDING", pageLimit, FALSE) ELSE {<<>>}

\* ------------------------------------------------------------- environment

Tick ==
    /\ now < MaxTime
    /\ now' = now + 1
    /\ UNCHANGED <<activeTaskCount, runs, trigger, faulted, recursed,
                   store, born, issued, streamInserts, triggerTopic, processTopic,
                   pc, start, reachedTimeLimit, tasks, proc, handoffs, batchLog>>

\* The table's TTL sweep: an item whose ttl has passed is deleted, at some
\* time after that.
Expire(t) ==
    /\ store[t] # NoTask
    /\ now >= store[t].ttl
    /\ store' = [store EXCEPT ![t] = NoTask]
    /\ UNCHANGED <<activeTaskCount, runs, trigger, faulted, recursed,
                   now, born, issued, streamInserts, triggerTopic, processTopic,
                   pc, start, reachedTimeLimit, tasks, proc, handoffs, batchLog>>

\* ---------------------------------------------------------------- producer

\* createTask(taskId): put the item; an I/O failure writes nothing.  A put
\* of a new key leaves an INSERT record on the table's stream.
createTask(taskId, io, counted) ==
    /\ store' = IF io = "ok" THEN PutItem(store, taskId, NewItem(now)) ELSE store
    /\ born' = IF io = "ok" /\ store[taskId] = NoTask
               THEN [born EXCEPT ![taskId] = now] ELSE born
    /\ streamInserts' = IF counted /\ io = "ok" /\ store[taskId] = NoTask
                        THEN streamInserts + 1 ELSE streamInserts

\* One round of createTasks: createTask(uuidv4()), a fresh id.
CreateTasks(io, counted, limit) ==
    /\ issued < limit
    /\ issued' = issued + 1
    /\ createTask(issued + 1, io, counted)
    /\ UNCHANGED <<activeTaskCount, runs, trigger, faulted, recursed,
                   now, triggerTopic, processTopic,
                   pc, start, reachedTimeLimit, tasks, proc, handoffs, batchLog>>

\* ------------------------------------------------------------ trigger relay

\* callFunction: publish on a topic; a failure is logged and swallowed.
callFunction(topic, io) == IF io = "ok" THEN topic + 1 ELSE topic

\* The records trigger.js can be handed: an SNS record carries EventSource
\* 'aws:sns' and no eventName, a record of the table's stream an eventName
\* and no EventSource.
SnsRecord == [EventSource |-> "aws:sns", eventName |-> "undefined"]
StreamRecord(name) == [EventSource |-> "undefined", eventName |-> name]
RecordKinds == {SnsRecord} \cup {StreamRecord(name) : name \in {"INSERT", "MODIFY", "REMOVE"}}

\* The events: without a Records array, or with one of up to MaxRecords records.
NoRecords == [hasRecords |-> FALSE, Records |-> <<>>]
WithRecords(records) == [hasRecords |-> TRUE, Records |-> records]
Events ==
    {NoRecords} \cup
    {WithRecords(records) : records \in UNION {[1..n -> RecordKinds] : n \in 0..MaxRecords}}

\* The event of k INSERTs delivered by the stream, and of a TriggerTopic notification.
InsertEvent(k) == WithRecords([i \in 1..k |-> StreamRecord("INSERT")])
SnsEvent == WithRecords(<<SnsRecord>>)

hasSnsEvent(event) ==
    event.hasRecords /\ \E i \in DOMAIN event.Records : event.Records[i].EventSource = "aws:sns"

\* Fault: the handler looks for MODIFY records in place of INSERT records.
hasInsertEvents_Modify(event) ==
    event.hasRecords /\ \E i \in DOMAIN event.Records : event.Records[i].eventName = "MODIFY"

hasInsertEvents(event) ==
    event.hasRecords /\ \E i \in DOMAIN event.Records : event.Records[i].eventName = "INSERT"

\* Fault: one call per record that asks for a dispatch.
TriggerCalls_PerRecord(event) ==
    IF event.hasRecords
    THEN Cardinality({i \in DOMAIN event.Records :
                         \/ event.Records[i].EventSource = "aws:sns"
                         \/ event.Records[i].eventName = "INSERT"})
    ELSE 0

\* How many times the trigger handler calls callFunction for an event.
TriggerCalls(event) == IF hasSnsEvent(event) \/ hasInsertEvents(event) THEN 1 ELSE 0

\* The topic after `calls` calls of callFunction.
RECURSIVE Published(_, _, _)
Published(topic, calls, io) ==
    IF calls = 0 THEN topic ELSE callFunction(Published(topic, calls - 1, io), io)

\* An event reaches the trigger function.
TriggerReceive(event) ==
    /\ trigger.st = "none"
    /\ trigger' = [event |-> event, st |-> "received", calls |-> 0]
    /\ UNCHANGED <<activeTaskCount, runs, faulted, recursed,
                   now, store, born, issued, streamInserts, triggerTopic, processTopic,
                   pc, start, reachedTimeLimit, tasks, proc, handoffs, batchLog>>

\* trigger.js handler on the event it received.
TriggerHandler(io) ==
    /\ trigger.st = "received"
    /\ trigger' = [trigger EXCEPT !.st = "returned", !.calls = TriggerCalls(trigger.event)]
    /\ processTopic' = Published(processTopic, TriggerCalls(trigger.event), io)
    /\ UNCHANGED <<activeTaskCount, runs, faulted, recursed,
                   now, store, born, issued, streamInserts, triggerTopic,
                   pc, start, reachedTimeLimit, tasks, proc, handoffs, batchLog>>

\* trigger.js handler on a batch of k stream records holding INSERTs,
\* delivery and handling in one step.
TriggerOnInsert(k, io) ==
    /\ k >= 1
    /\ streamInserts >= k
    /\ streamInserts' = streamInserts - k
    /\ processTopic' = Published(processTopic, TriggerCalls(InsertEvent(k)), io)
    /\ UNCHANGED <<activeTaskCount, runs, trigger, faulted, recursed,
                   now, store, born, issued, triggerTopic,
                   pc, start, reachedTimeLimit, tasks, proc, handoffs, batchLog>>

\* Fault: a trigger function that takes the notification and dispatches nothing.
TriggerOnSns_Dropped(io) ==
    /\ triggerTopic > 0
    /\ triggerTopic' = triggerTopic - 1
    /\ UNCHANGED <<activeTaskCount, runs, trigger, faulted, recursed,
                   now, store, born, issued, streamInserts, processTopic,
                   pc, start, reachedTimeLimit, tasks, proc, handoffs, batchLog>>

\* trigger.js handler on a TriggerTopic notification (a tail call), delivery
\* and handling in one step.
TriggerOnSns(io) ==
    /\ triggerTopic > 0
    /\ triggerTopic' = triggerTopic - 1
    /\ processTopic' = Published(processTopic, TriggerCalls(SnsEvent), io)
    /\ UNCHANGED <<activeTaskCount, runs, trigger, faulted, recursed,
                   now, store, born, issued, streamInserts,
                   pc, start, reachedTimeLimit, tasks, proc, handoffs, batchLog>>

\* ------------------------------------------------------------------ worker

\* Fault: the budget counts as reached only once it is exceeded.
ReachedTimeLimit_Strict(startTime, t) == Abs(startTime - t) > maxActiveTime

\* processTasks(start), first lines: the time limit is judged once per call,
\* before the poll is sent.
ReachedTimeLimit(startTime, t) == Abs(startTime - t) >= maxActiveTime

\* process_tasks.js handler: a dispatch starts an activation (in the lowest
\* free slot); start = now, processTasks(start) judges the time limit and
\* sends the first poll.
HandlerStart(w, counted) ==
    /\ pc[w] = "idle"
    /\ \A v \in Workers : v < w => pc[v] # "idle"
    /\ counted => processTopic > 0
    /\ processTopic' = IF counted THEN processTopic - 1 ELSE processTopic
    /\ pc' = [pc EXCEPT ![w] = "poll"]
    /\ start' = [start EXCEPT ![w] = now]
    /\ reachedTimeLimit' = [reachedTimeLimit EXCEPT ![w] = ReachedTimeLimit(now, now)]
    /\ UNCHANGED <<activeTaskCount, runs, trigger, faulted, recursed,
                   now, store, born, issued, streamInserts, triggerTopic,
                   tasks, proc, handoffs, batchLog>>

\* processTaskBatch: one processTask per task, each behind its own timer.
processTaskBatch(batch) ==
    [i \in 1..Len(batch) |-> [st |-> "timer", toState |-> "FAILURE"]]

\* Fault: resolving without the tail call.
AfterPoll_NeverTail(hasTasks, reached) ==
    IF hasTasks /\ ~reached THEN "batch" ELSE "done"

\* Fault: a tail call whenever the time limit was reached.
AfterPoll_TailWhenLate(hasTasks, reached) ==
    IF hasTasks /\ ~reached THEN "batch"
    ELSE IF reached THEN "tail" ELSE "done"

\* getAndProcessTasksOrResolve, the branches after the poll: process the
\* batch, or tail call the trigger and resolve, or just resolve.
AfterPoll(hasTasks, reached) ==
    IF hasTasks /\ ~reached THEN "batch"
    ELSE IF hasTasks THEN "tail" ELSE "done"

\* getAndProcessTasksOrResolve from the poll's answer to its next await.  On
\* the way out it is on record whether this call of processTasks is a nested
\* one, made by waitAndContinue after a batch (the batch still in proc).
PollStep(w, io, log) ==
    /\ pc[w] = "poll"
    /\ \E batch \in getPendingTaskBatch(store, io) :
          LET to == AfterPoll(Len(batch) > 0, reachedTimeLimit[w]) IN
          /\ tasks' = [tasks EXCEPT ![w] = batch]
          /\ pc' = [pc EXCEPT ![w] = to]
          /\ proc' = [proc EXCEPT ![w] = IF to = "batch" THEN processTaskBatch(batch) ELSE <<>>]
          /\ batchLog' = IF log /\ to = "batch" THEN Append(batchLog, batch) ELSE batchLog
          /\ recursed' = [recursed EXCEPT ![w] = to # "batch" /\ proc[w] # <<>>]
    /\ UNCHANGED <<activeTaskCount, runs, trigger,
                   now, store, born, issued, streamInserts, triggerTopic, processTopic,
                   start, reachedTimeLimit, handoffs>>

GetAndProcessTasksOrResolve(w, io, log) == PollStep(w, io, log) /\ UNCHANGED faulted

\* The same with the query failing, the failure put on record.
PollFails(w) == PollStep(w, "error", FALSE) /\ faulted' = TRUE

\* Fault: a processTask that goes on whatever the lease attempt returned.
LeaseStep_IgnoresResult(w, i, io) ==
    /\ pc[w] = "batch"
    /\ i \in DOMAIN proc[w]
    /\ proc[w][i].st = "timer"
    /\ \A j \in 1..(i - 1) : proc[w][j].st # "timer"
    /\ store' = transitionTask(store, tasks[w][i], "PENDING", "TAKEN", now, io)
    /\ proc' = [proc EXCEPT ![w][i].st = "leased"]
    /\ UNCHANGED <<activeTaskCount, runs, trigger, recursed,
                   now, born, issued, streamInserts, triggerTopic, processTopic,
                   pc, start, reachedTimeLimit, tasks, handoffs, batchLog>>

\* Fault: tasks processed one after the other, the first failed lease ending
\* the batch's processing.
LeaseStep_StopsAtFailure(w, i, io) ==
    /\ pc[w] = "batch"
    /\ i \in DOMAIN proc[w]
    /\ proc[w][i].st = "timer"
    /\ \A j \in 1..(i - 1) : proc[w][j].st \notin {"timer", "skipped"}
    /\ store' = transitionTask(store, tasks[w][i], "PENDING", "TAKEN", now, io)
    /\ proc' = [proc EXCEPT ![w][i].st =
                  IF transitionOk(store, tasks[w][i], "PENDING", io)
                  THEN "leased" ELSE "skipped"]
    /\ UNCHANGED <<activeTaskCount, runs, trigger, recursed,
                   now, born, issued, streamInserts, triggerTopic, processTopic,
                   pc, start, reachedTimeLimit, tasks, handoffs, batchLog>>

\* processTask, first step: the timer fires (timers fire in batch order) and
\* the lease PENDING -> TAKEN is attempted; a failed lease ends processTask.
LeaseStep(w, i, io) ==
    /\ pc[w] = "batch"
    /\ i \in DOMAIN proc[w]
    /\ proc[w][i].st = "timer"
    /\ \A j \in 1..(i - 1) : proc[w][j].st # "timer"
    /\ store' = transitionTask(store, tasks[w][i], "PENDING", "TAKEN", now, io)
    /\ proc' = [proc EXCEPT ![w][i].st =
                  IF transitionOk(store, tasks[w][i], "PENDING", io)
                  THEN "leased" ELSE "skipped"]
    /\ UNCHANGED <<activeTaskCount, runs, trigger, recursed,
                   now, born, issued, streamInserts, triggerTopic, processTopic,
                   pc, start, reachedTimeLimit, tasks, handoffs, batchLog>>

Lease(w, i, io) == LeaseStep(w, i, io) /\ UNCHANGED faulted

\* The same with the update failing, the failure put on record.
LeaseFails(w, i) == LeaseStep(w, i, "error") /\ faulted' = TRUE

\* Fault: a throw of the runner leaves toState at its initial FAILURE.
toStateOf_ThrowFails(result) == IF result = "THROW" THEN "FAILURE" ELSE result

\* processTask's toState: what the runner returned, PENDING when it threw.
toStateOf(result) == IF result = "THROW" THEN "PENDING" ELSE result

\* processTask, the try block: the runner returns a status or throws.
TaskRunner(w, i, result) ==
    /\ i \in DOMAIN proc[w]
    /\ proc[w][i].st = "leased"
    /\ proc' = [proc EXCEPT ![w][i] = [st |-> "ran", toState |-> toStateOf(result)]]
    /\ UNCHANGED <<activeTaskCount, runs, trigger, faulted, recursed,
                   now, store, born, issued, streamInserts, triggerTopic, processTopic,
                   pc, start, reachedTimeLimit, tasks, handoffs, batchLog>>

\* Fault: a finally block that transitions from PENDING instead of TAKEN.
ConcludeStep_WrongOrigin(w, i, io) ==
    /\ i \in DOMAIN proc[w]
    /\ proc[w][i].st = "ran"
    /\ store' = transitionTask(store, tasks[w][i], "PENDING", proc[w][i].toState, now, io)
    /\ proc' = [proc EXCEPT ![w][i] = [st |-> "concluded", toState |-> "FAILURE"]]
    /\ UNCHANGED <<activeTaskCount, runs, trigger, recursed,
                   now, born, issued, streamInserts, triggerTopic, processTopic,
                   pc, start, reachedTimeLimit, tasks, handoffs, batchLog>>

\* processTask, the finally block: TAKEN -> toState, whatever it returns;
\* processTask ends and its toState is gone.
ConcludeStep(w, i, io) ==
    /\ i \in DOMAIN proc[w]
    /\ proc[w][i].st = "ran"
    /\ store' = transitionTask(store, tasks[w][i], "TAKEN", proc[w][i].toState, now, io)
    /\ proc' = [proc EXCEPT ![w][i] = [st |-> "concluded", toState |-> "FAILURE"]]
    /\ UNCHANGED <<activeTaskCount, runs, trigger, recursed,
                   now, born, issued, streamInserts, triggerTopic, processTopic,
                   pc, start, reachedTimeLimit, tasks, handoffs, batchLog>>

Conclude(w, i, io) == ConcludeStep(w, i, io) /\ UNCHANGED faulted

\* The same with the update failing, the failure put on record.
ConcludeFails(w, i) == ConcludeStep(w, i, "error") /\ faulted' = TRUE

\* Fault: Promise.any in place of Promise.allSettled.
AllSettled_Any(w) == \E i \in DOMAIN proc[w] : proc[w][i].st \in {"skipped", "concluded"}

\* Promise.allSettled over the batch's promises: each processTask has
\* returned, after a failed lease or after its concluding transition.
AllSettled(w) == \A i \in DOMAIN proc[w] : proc[w][i].st \in {"skipped", "concluded"}

\* The batch has settled (await Promise.allSettled) and the inter-batch timer
\* of waitAndContinue has fired: processTasks(start) again, in a new promise;
\* it judges the time limit and sends the next poll.
WaitAndContinue(w) ==
    /\ pc[w] = "batch"
    /\ AllSettled(w)
    /\ pc' = [pc EXCEPT ![w] = "poll"]
    /\ reachedTimeLimit' = [reachedTimeLimit EXCEPT ![w] = ReachedTimeLimit(start[w], now)]
    /\ UNCHANGED <<activeTaskCount, runs, trigger, faulted, recursed,
                   now, store, born, issued, streamInserts, triggerTopic, processTopic,
                   start, tasks, proc, handoffs, batchLog>>

\* TAIL_CALL_TRIGGER: callFunction on TriggerTopic, then resolve.
TailCall(w, io, counted) ==
    /\ pc[w] = "tail"
    /\ handoffs' = [handoffs EXCEPT ![w] = @ + 1]
    /\ triggerTopic' = IF counted THEN callFunction(triggerTopic, io) ELSE triggerTopic
    /\ pc' = [pc EXCEPT ![w] = "done"]
    /\ UNCHANGED <<activeTaskCount, runs, trigger, faulted, recursed,
                   now, store, born, issued, streamInserts, processTopic,
                   start, reachedTimeLimit, tasks, proc, batchLog>>

\* The activation is over; the slot is free for the next dispatch.  The
\* resolve() that ran belongs to the innermost processTasks call: the promise
\* the handler awaits is that call's only if processTasks never called itself,
\* and only then does the handler go on to PROCESS_TASKS_END; otherwise the
\* invocation is over when nothing is left to run.
HandlerEnd(w) ==
    /\ pc[w] = "done"
    /\ pc' = [pc EXCEPT ![w] = "idle"]
    /\ start' = [start EXCEPT ![w] = 0]
    /\ reachedTimeLimit' = [reachedTimeLimit EXCEPT ![w] = FALSE]
    /\ tasks' = [tasks EXCEPT ![w] = <<>>]
    /\ proc' = [proc EXCEPT ![w] = <<>>]
    /\ handoffs' = [handoffs EXCEPT ![w] = 0]
    /\ recursed' = [recursed EXCEPT ![w] = FALSE]
    /\ UNCHANGED <<activeTaskCount, runs, trigger, faulted,
                   now, store, born, issued, streamInserts, triggerTopic, processTopic,
                   batchLog>>

\* ------------------------------------------------------------ fake runner

\* Fault: a call is turned away only above the maximum.
fakeTaskRunnerSkips_Above(count) == count > fakeMaxActiveTasks

\* fakeTaskRunner's test: the active tasks limit is reached.
fakeTaskRunnerSkips(count) == count >= fakeMaxActiveTasks

\* fakeTaskRunner up to its return, one turn of the event loop: TASK_RUN_SKIP
\* and 'PENDING', or TASK_RUN_START, the count raised and the promise
\* returned with its timer set.
FakeTaskRunner(c) ==
    /\ runs[c] = "none"
    /\ IF fakeTaskRunnerSkips(activeTaskCount)
       THEN /\ runs' = [runs EXCEPT ![c] = "PENDING"]
            /\ UNCHANGED activeTaskCount
       ELSE /\ runs' = [runs EXCEPT ![c] = "running"]
            /\ activeTaskCount' = activeTaskCount + 1
    /\ UNCHANGED <<now, store, born, issued, streamInserts, triggerTopic, processTopic,
                   pc, start, reachedTimeLimit, tasks, proc, handoffs, batchLog,
                   recursed, trigger, faulted>>

\* The timer of fakeTaskDuration fires: TASK_RUN_COMPLETE, the count lowered,
\* the promise resolved with 'SUCCESS'.
FakeTaskComplete(c) ==
    /\ runs[c] = "running"
    /\ activeTaskCount' = activeTaskCount - 1
    /\ runs' = [runs EXCEPT ![c] = "SUCCESS"]
    /\ UNCHANGED <<now, store, born, issued, streamInserts, triggerTopic, processTopic,
                   pc, start, reachedTimeLimit, tasks, proc, handoffs, batchLog,
                   recursed, trigger, faulted>>

\* The caller has taken the call's result.
FakeTaskReturned(c) ==
    /\ runs[c] \in {"PENDING", "SUCCESS"}
    /\ runs' = [runs EXCEPT ![c] = "none"]
    /\ UNCHANGED <<activeTaskCount,
                   now, store, born, issued, streamInserts, triggerTopic, processTopic,
                   pc, start, reachedTimeLimit, tasks, proc, handoffs, batchLog,
                   recursed, trigger, faulted>>

\* The invocation is ended from outside (the function's timeout) wherever it
\* stands: its timers, awaited calls and finally blocks are gone with it.
Kill(w) ==
    /\ pc[w] # "idle"
    /\ pc' = [pc EXCEPT ![w] = "idle"]
    /\ start' = [start EXCEPT ![w] = 0]
    /\ reachedTimeLimit' = [reachedTimeLimit EXCEPT ![w] = FALSE]
    /\ tasks' = [tasks EXCEPT ![w] = <<>>]
    /\ proc' = [proc EXCEPT ![w] = <<>>]
    /\ handoffs' = [handoffs EXCEPT ![w] = 0]
    /\ recursed' = [recursed EXCEPT ![w] = FALSE]
    /\ UNCHANGED <<activeTaskCount, runs, trigger, faulted,
                   now, store, born, issued, streamInserts, triggerTopic, processTopic,
                   batchLog>>

\* ------------------------------------------------------------ specification

\* The table holding tasks 1..n as createTask wrote them at the times
\* `created`, since moved to the statuses `status`.
Backlog(n, created, status) ==
    [t \in TaskIds |->
        IF t <= n
        THEN [NewItem(created[t]) EXCEPT !.taskStatus = status[t]]
        ELSE NoTask]

\* No activation running; the table `st` of n tasks, the clock at t0,
\* `dispatches` messages waiting on ProcessTasksTopic.
InitWith(st, n, t0, dispatches) ==
    /\ now = t0
    /\ store = st
    /\ born = [t \in TaskIds |-> st[t].taskCreated]
    /\ issued = n
    /\ streamInserts = 0
    /\ triggerTopic = 0
    /\ processTopic = dispatches
    /\ pc = [w \in Workers |-> "idle"]
    /\ start = [w \in Workers |-> 0]
    /\ reachedTimeLimit = [w \in Workers |-> FALSE]
    /\ tasks = [w \in Workers |-> <<>>]
    /\ proc = [w \in Workers |-> <<>>]
    /\ handoffs = [w \in Workers |-> 0]
    /\ batchLog = <<>>
    /\ recursed = [w \in Workers |-> FALSE]
    /\ trigger = NoInvocation
    /\ faulted = FALSE
    /\ activeTaskCount = 0
    /\ runs = [c \in Runs |-> "none"]

\* The deployed stack before the first task: an empty table.
Init == InitWith([t \in TaskIds |-> NoTask], 0, 0, 0)

\* The deployed worker: one activation at a time (the function's concurrency
\* limit of 1).
Solo == {1}

Next ==
    \/ Tick
    \/ \E t \in TaskIds : Expire(t)
    \/ \E io \in IoResults : CreateTasks(io, FALSE, MaxTasks)
    \/ \E w \in Solo : HandlerStart(w, FALSE)
    \/ \E w \in Solo, io \in IoResults : GetAndProcessTasksOrResolve(w, io, FALSE)
    \/ \E w \in Solo, i \in 1..pageLimit, io \in IoResults : Lease(w, i, io)
    \/ \E w \in Solo, i \in 1..pageLimit, r \in RunnerResults : TaskRunner(w, i, r)
    \/ \E w \in Solo, i \in 1..pageLimit, io \in IoResults : Conclude(w, i, io)
    \/ \E w \in Solo : WaitAndContinue(w)
    \/ \E w \in Solo, io \in IoResults : TailCall(w, io, FALSE)
    \/ \E w \in Solo : HandlerEnd(w)

\* The open system with one activation at a time.  Dispatches are not
\* counted: delivery is at least once, so an activation may start whenever
\* the slot is free.
Spec == Init /\ [][Next]_vars

NextOverlap ==
    \/ \E io \in IoResults : CreateTasks(io, FALSE, MaxRaceTasks)
    \/ \E w \in Workers : HandlerStart(w, FALSE)
    \/ \E w \in Workers, io \in IoResults : GetAndProcessTasksOrResolve(w, io, FALSE)
    \/ \E w \in Workers, i \in 1..pageLimit, io \in IoResults : Lease(w, i, io)
    \/ \E w \in Workers, i \in 1..pageLimit, r \in RunnerResults : TaskRunner(w, i, r)
    \/ \E w \in Workers, i \in 1..pageLimit, io \in IoResults : Conclude(w, i, io)
    \/ \E w \in Workers : WaitAndContinue(w)
    \/ \E w \in Workers : HandlerEnd(w)

\* Overlapping activations racing for the same tasks, within one tick of the
\* clock (no time limit is reached, nothing expires).
SpecOverlap == Init /\ [][NextOverlap]_vars

\* ------------------------------------------------------- other environments

\* createTask called with an id the table already holds (createTasks itself
\* never does: it draws every id from uuidv4).
RecreateTask(taskId, io) ==
    /\ store[taskId] # NoTask
    /\ createTask(taskId, io, FALSE)
    /\ UNCHANGED <<activeTaskCount, runs, trigger, faulted, recursed,
                   now, issued, triggerTopic, processTopic,
                   pc, start, reachedTimeLimit, tasks, proc, handoffs, batchLog>>

NextCollide ==
    \/ Next
    \/ \E taskId \in TaskIds, io \in IoResults : RecreateTask(taskId, io)

\* The open system with a producer that may repeat an id.
SpecCollide == Init /\ [][NextCollide]_vars

NonDecreasing(f, n) == \A i, j \in 1..n : i < j => f[i] <= f[j]

\* Any backlog of up to pageLimit + 2 tasks in any statuses, created in id
\* order at any ticks, and one worker polling and processing it.
InitQuery ==
    \E n \in 0..(pageLimit + 2) :
        \E created \in [1..n -> 0..MaxCreated],
           status \in [1..n -> {"PENDING", "TAKEN", "SUCCESS", "FAILURE"}] :
            /\ NonDecreasing(created, n)
            /\ InitWith(Backlog(n, created, status), n, MaxCreated, 0)

NextQuery ==
    \/ \E w \in Solo : HandlerStart(w, FALSE)
    \/ \E w \in Solo, io \in IoResults : GetAndProcessTasksOrResolve(w, io, FALSE)
    \/ \E w \in Solo, i \in 1..pageLimit, io \in IoResults : Lease(w, i, io)
    \/ \E w \in Solo, i \in 1..pageLimit, r \in RunnerResults : TaskRunner(w, i, r)
    \/ \E w \in Solo, i \in 1..pageLimit, io \in IoResults : Conclude(w, i, io)
    \/ \E w \in Solo : WaitAndContinue(w)
    \/ \E w \in Solo : HandlerEnd(w)

SpecQuery == InitQuery /\ [][NextQuery]_vars

\* The drain scenario: n > pageLimit PENDING tasks created at strictly
\* increasing times, one dispatch, no producer, a runner that always returns
\* SUCCESS, no failing call, and no tick of the clock (one tick is the whole
\* budget).  The batches processed are logged.
InitDrain ==
    \E n \in (pageLimit + 1)..(2 * pageLimit + 2) :
        InitWith(Backlog(n, [t \in 1..n |-> t], [t \in 1..n |-> "PENDING"]), n, n, 1)

NextDrain ==
    \/ \E w \in Solo : HandlerStart(w, TRUE)
    \/ \E w \in Solo : GetAndProcessTasksOrResolve(w, "ok", TRUE)
    \/ \E w \in Solo, i \in 1..pageLimit : Lease(w, i, "ok")
    \/ \E w \in Solo, i \in 1..pageLimit : TaskRunner(w, i, "SUCCESS")
    \/ \E w \in Solo, i \in 1..pageLimit : Conclude(w, i, "ok")
    \/ \E w \in Solo : WaitAndContinue(w)
    \/ \E w \in Solo : HandlerEnd(w)

SpecDrain == InitDrain /\ [][NextDrain]_vars

\* The saturation scenario: up to pageLimit + 1 PENDING tasks, one dispatch,
\* no producer, no expiry, a runner that always returns PENDING, no failing
\* call, and a clock that runs past the budget.
InitSaturated ==
    \E n \in 1..(pageLimit + 1) :
        InitWith(Backlog(n, [t \in 1..n |-> 0], [t \in 1..n |-> "PENDING"]), n, 0, 1)

NextSaturated ==
    \/ Tick
    \/ \E w \in Solo : HandlerStart(w, TRUE)
    \/ \E w \in Solo : GetAndProcessTasksOrResolve(w, "ok", FALSE)
    \/ \E w \in Solo, i \in 1..pageLimit : Lease(w, i, "ok")
    \/ \E w \in Solo, i \in 1..pageLimit : TaskRunner(w, i, "PENDING")
    \/ \E w \in Solo, i \in 1..pageLimit : Conclude(w, i, "ok")
    \/ \E w \in Solo : WaitAndContinue(w)
    \/ \E w \in Solo : TailCall(w, "ok", TRUE)
    \/ \E w \in Solo : HandlerEnd(w)

SpecSaturated == InitSaturated /\ [][NextSaturated]_vars

\* The trigger function alone, handed any event.
NextRelay ==
    \/ \E event \in Events : TriggerReceive(event)
    \/ \E io \in IoResults : TriggerHandler(io)

SpecRelay == Init /\ [][NextRelay]_vars

\* The throwing-runner scenario: up to pageLimit + 1 PENDING tasks, one
\* dispatch, no producer, no expiry, a runner that throws on every task, no
\* failing call, and a clock that runs past the budget.
NextThrow ==
    \/ Tick
    \/ \E w \in Solo : HandlerStart(w, TRUE)
    \/ \E w \in Solo : GetAndProcessTasksOrResolve(w, "ok", FALSE)
    \/ \E w \in Solo, i \in 1..pageLimit : Lease(w, i, "ok")
    \/ \E w \in Solo, i \in 1..pageLimit : TaskRunner(w, i, "THROW")
    \/ \E w \in Solo, i \in 1..pageLimit : Conclude(w, i, "ok")
    \/ \E w \in Solo : WaitAndContinue(w)
    \/ \E w \in Solo : TailCall(w, "ok", TRUE)
    \/ \E w \in Solo : HandlerEnd(w)

SpecThrow == InitSaturated /\ [][NextThrow]_vars

\* The idle scenario: a table of up to pageLimit + 1 tasks, PENDING or not,
\* and two dispatches, the second a duplicate; no producer, no expiry, a
\* runner that returns SUCCESS, no failing call.  The batches processed are
\* logged.
InitIdle ==
    \E n \in 0..(pageLimit + 1) :
        \E status \in [1..n -> TaskStatuses] :
            InitWith(Backlog(n, [t \in 1..n |-> 0], status), n, 0, 2)

NextIdle ==
    \/ Tick
    \/ \E w \in Solo : HandlerStart(w, TRUE)
    \/ \E w \in Solo : GetAndProcessTasksOrResolve(w, "ok", TRUE)
    \/ \E w \in Solo, i \in 1..pageLimit : Lease(w, i, "ok")
    \/ \E w \in Solo, i \in 1..pageLimit : TaskRunner(w, i, "SUCCESS")
    \/ \E w \in Solo, i \in 1..pageLimit : Conclude(w, i, "ok")
    \/ \E w \in Solo : WaitAndContinue(w)
    \/ \E w \in Solo : TailCall(w, "ok", TRUE)
    \/ \E w \in Solo : HandlerEnd(w)

SpecIdle == InitIdle /\ [][NextIdle]_vars

\* The low-load system: the producer creates up to MaxLiveTasks tasks and
\* stops; stream records and notifications reach the trigger function, its
\* dispatches the worker, of which one activation runs at a time; publishes
\* succeed and no task expires; calls to the table may fail; the runner may
\* return anything.
NextLive ==
    \/ Tick
    \/ CreateTasks("ok", TRUE, MaxLiveTasks)
    \/ \E k \in 1..MaxLiveTasks : TriggerOnInsert(k, "ok")
    \/ TriggerOnSns("ok")
    \/ \E w \in Solo : HandlerStart(w, TRUE)
    \/ \E w \in Solo : GetAndProcessTasksOrResolve(w, "ok", FALSE)
    \/ \E w \in Solo : PollFails(w)
    \/ \E w \in Solo, i \in 1..pageLimit : Lease(w, i, "ok")
    \/ \E w \in Solo, i \in 1..pageLimit : LeaseFails(w, i)
    \/ \E w \in Solo, i \in 1..pageLimit, r \in RunnerResults : TaskRunner(w, i, r)
    \/ \E w \in Solo, i \in 1..pageLimit : Conclude(w, i, "ok")
    \/ \E w \in Solo, i \in 1..pageLimit : ConcludeFails(w, i)
    \/ \E w \in Solo : WaitAndContinue(w)
    \/ \E w \in Solo : TailCall(w, "ok", TRUE)
    \/ \E w \in Solo : HandlerEnd(w)

\* The runner returns SUCCESS or FAILURE.
RunnerSettles(w, i) == TaskRunner(w, i, "SUCCESS") \/ TaskRunner(w, i, "FAILURE")

\* Signals are delivered, dispatches start activations, timers fire and
\* awaited calls return; a runner asked again and again returns SUCCESS or
\* FAILURE in the end.
FairLive ==
    /\ WF_vars(\E k \in 1..MaxLiveTasks : TriggerOnInsert(k, "ok"))
    /\ WF_vars(TriggerOnSns("ok"))
    /\ \A w \in Solo :
          /\ WF_vars(HandlerStart(w, TRUE))
          /\ WF_vars(GetAndProcessTasksOrResolve(w, "ok", FALSE))
          /\ WF_vars(WaitAndContinue(w))
          /\ WF_vars(TailCall(w, "ok", TRUE))
          /\ WF_vars(HandlerEnd(w))
          /\ \A i \in 1..pageLimit :
                /\ WF_vars(Lease(w, i, "ok"))
                /\ WF_vars(Conclude(w, i, "ok"))
                /\ SF_vars(RunnerSettles(w, i))

SpecLive == Init /\ [][NextLive]_vars /\ FairLive

\* The open system with activations that may be killed: one activation at a
\* time, the producer, the clock and expiry, any runner result; failures of
\* calls to the table are put on record.
NextStranded ==
    \/ Tick
    \/ \E t \in TaskIds : Expire(t)
    \/ CreateTasks("ok", FALSE, MaxTasks)
    \/ \E w \in Solo : HandlerStart(w, FALSE)
    \/ \E w \in Solo : GetAndProcessTasksOrResolve(w, "ok", FALSE)
    \/ \E w \in Solo : PollFails(w)
    \/ \E w \in Solo, i \in 1..pageLimit : Lease(w, i, "ok")
    \/ \E w \in Solo, i \in 1..pageLimit : LeaseFails(w, i)
    \/ \E w \in Solo, i \in 1..pageLimit, r \in RunnerResults : TaskRunner(w, i, r)
    \/ \E w \in Solo, i \in 1..pageLimit : Conclude(w, i, "ok")
    \/ \E w \in Solo, i \in 1..pageLimit : ConcludeFails(w, i)
    \/ \E w \in Solo : WaitAndContinue(w)
    \/ \E w \in Solo, io \in IoResults : TailCall(w, io, FALSE)
    \/ \E w \in Solo : HandlerEnd(w)
    \/ \E w \in Solo : Kill(w)

SpecStranded == Init /\ [][NextStranded]_vars

\* The fake runner under any number of concurrent calls, made and completed
\* in any order.
NextRunner ==
    \/ \E c \in Runs : FakeTaskRunner(c)
    \/ \E c \in Runs : FakeTaskComplete(c)
    \/ \E c \in Runs : FakeTaskReturned(c)

SpecRunner == Init /\ [][NextRunner]_vars

\* The whole system with its signals counted: the producer creates up to
\* MaxLiveTasks tasks; stream records and notifications reach the trigger
\* function, its dispatches the worker, of which one activation runs at a
\* time (the function's concurrency limit of 1).  Queries and publishes
\* succeed and no activation is killed; updates of the table may fail, tasks
\* may expire, and the runner may return anything.
NextWake ==
    \/ Tick
    \/ \E t \in TaskIds : Expire(t)
    \/ CreateTasks("ok", TRUE, MaxLiveTasks)
    \/ \E k \in 1..MaxLiveTasks : TriggerOnInsert(k, "ok")
    \/ TriggerOnSns("ok")
    \/ \E w \in Solo : HandlerStart(w, TRUE)
    \/ \E w \in Solo : GetAndProcessTasksOrResolve(w, "ok", FALSE)
    \/ \E w \in Solo, i \in 1..pageLimit, io \in IoResults : Lease(w, i, io)
    \/ \E w \in Solo, i \in 1..pageLimit, r \in RunnerResults : TaskRunner(w, i, r)
    \/ \E w \in Solo, i \in 1..pageLimit, io \in IoResults : Conclude(w, i, io)
    \/ \E w \in Solo : WaitAndContinue(w)
    \/ \E w \in Solo : TailCall(w, "ok", TRUE)
    \/ \E w \in Solo : HandlerEnd(w)

SpecWake == Init /\ [][NextWake]_vars

\* ------------------------------------------------------------- properties

Range(f) == {f[i] : i \in DOMAIN f}

\* The processTask invocations that hold task t: they leased it and have not
\* concluded it yet.
Holders(t) ==
    {<<w, i>> \in Workers \X (1..pageLimit) :
        /\ i \in DOMAIN proc[w]
        /\ tasks[w][i] = t
        /\ proc[w][i].st \in {"leased", "ran"}}

\* C1 (checked under SpecOverlap): at most one owner.  Whatever number of
\* workers polled the same PENDING task and try to lease it, at most one of
\* them holds it at any time, and while one holds it the task is TAKEN.
C1_AtMostOneOwner ==
    \A t \in TaskIds :
        /\ Cardinality(Holders(t)) <= 1
        /\ Holders(t) # {} => store[t].taskStatus = "TAKEN"

\* Two workers polled the same task; one leased it and the other's lease failed.
C1_Witness ==
    \E t \in TaskIds, i, j \in 1..pageLimit :
        /\ <<1, i>> \in Holders(t)
        /\ j \in DOMAIN proc[2]
        /\ tasks[2][j] = t
        /\ proc[2][j].st = "skipped"

\* batch is the page getPendingTaskBatch must return from the table: only
\* PENDING tasks, each once, newest first, min(pageLimit, #PENDING) of them,
\* and no PENDING task left out that is newer than one returned.
IsNewestPage(batch) ==
    LET P == IndexPartition(store, "PENDING") IN
    /\ Len(batch) = Min(pageLimit, Cardinality(P))
    /\ Range(batch) \subseteq P
    /\ \A i, j \in DOMAIN batch : i # j => batch[i] # batch[j]
    /\ \A i, j \in DOMAIN batch :
          i < j => store[batch[i]].taskCreated >= store[batch[j]].taskCreated
    /\ \A t \in P \ Range(batch), i \in DOMAIN batch :
          store[t].taskCreated <= store[batch[i]].taskCreated

\* The worker has just received its page and none of its timers has fired.
FreshBatch(w) ==
    /\ pc[w] = "batch"
    /\ \A i \in DOMAIN proc[w] : proc[w][i].st = "timer"

\* C2 (checked under SpecQuery): LIFO selection.  Every answer of a poll is
\* the newest-first page of the PENDING tasks, truncated at pageLimit, and it
\* is what the worker sets out to process.
C2_LifoSelection ==
    /\ \A batch \in getPendingTaskBatch(store, "ok") : IsNewestPage(batch)
    /\ \A w \in Solo : FreshBatch(w) => IsNewestPage(tasks[w])

\* A full page was returned while an older PENDING task was left out and a
\* task newer than the whole page was passed over for not being PENDING.
C2_Witness ==
    /\ FreshBatch(1)
    /\ Len(tasks[1]) = pageLimit
    /\ \E t \in IndexPartition(store, "PENDING") \ Range(tasks[1]) :
          store[t].taskCreated < store[tasks[1][pageLimit]].taskCreated
    /\ \E t \in TaskIds :
          /\ store[t] # NoTask
          /\ store[t].taskStatus # "PENDING"
          /\ store[t].taskCreated > store[tasks[1][1]].taskCreated

\* C3 (checked under Spec): a task keeps the rank of its creation.  In every
\* answer of a poll a PENDING task, requeued or not, comes after every PENDING
\* task born later, and is returned only if they are.
C3_RequeueKeepsRank ==
    \A batch \in getPendingTaskBatch(store, "ok") :
        \A a, b \in IndexPartition(store, "PENDING") :
            born[b] > born[a] /\ a \in Range(batch) =>
                \E i, j \in DOMAIN batch : i < j /\ batch[i] = b /\ batch[j] = a

\* A task that was taken and requeued is polled again together with a task
\* created after it, and comes second.
C3_Witness ==
    /\ FreshBatch(1)
    /\ Len(tasks[1]) = 2
    /\ LET b == tasks[1][1]
           a == tasks[1][2]
       IN  /\ store[a] # NoTask /\ store[a].taskStatus = "PENDING"
           /\ store[b] # NoTask /\ store[b].taskStatus = "PENDING"
           /\ store[a].taskUpdated > store[a].taskCreated
           /\ born[b] > born[a]

Terminal(item) == item # NoTask /\ item.taskStatus \in {"SUCCESS", "FAILURE"}

\* C4 (checked under SpecOverlap): terminal states are final.  A task that is
\* SUCCESS or FAILURE is never changed again (it can only be deleted), and no
\* processTask comes to hold it.
C4_TerminalIsFinal ==
    [][\A t \in TaskIds :
          Terminal(store[t]) =>
              /\ store'[t] = store[t] \/ store'[t] = NoTask
              /\ Holders(t)' = {}]_vars

\* A terminal task on which a processTask has just tried its lease and failed.
C4_Witness ==
    \E t \in TaskIds, i \in 1..pageLimit :
        /\ Terminal(store[t])
        /\ i \in DOMAIN proc[2]
        /\ tasks[2][i] = t
        /\ proc[2][i].st = "skipped"

\* C5 (checked under Spec): what the bound on a task's life would need - a
\* task whose ttl has passed is never returned by a poll.
C5_ExpiredNeverPolled ==
    \A batch \in getPendingTaskBatch(store, "ok") :
        \A i \in DOMAIN batch : now < store[batch[i]].ttl

\* C6 (checked under Spec): the hand-off.  An activation calls the trigger at
\* most once, and it ends having called it exactly when its last poll was
\* judged over the time limit and returned tasks.
C6_HandoffOnce ==
    \A w \in Solo :
        /\ handoffs[w] <= 1
        /\ pc[w] = "done" =>
              (handoffs[w] = 1 <=> reachedTimeLimit[w] /\ Len(tasks[w]) > 0)
        /\ pc[w] \in {"poll", "batch", "tail"} => handoffs[w] = 0

\* An activation ended over the time limit with tasks at its last poll and
\* its hand-off made.
C6_Witness ==
    /\ pc[1] = "done"
    /\ handoffs[1] = 1
    /\ reachedTimeLimit[1]
    /\ Len(tasks[1]) > 0

\* C7 (checked under Spec): no partial batch.  Outside the processing of a
\* batch - at the next poll, at the tail call, at the end - every processTask
\* of the last batch has returned.
C7_NoPartialBatch ==
    \A w \in Solo :
        pc[w] # "batch" =>
            \A i \in DOMAIN proc[w] : proc[w][i].st \in {"skipped", "concluded"}

\* The next poll is due after a batch in which one lease failed and one task
\* was concluded.
C7_Witness ==
    /\ pc[1] = "poll"
    /\ \E i, j \in DOMAIN proc[1] :
          proc[1][i].st = "skipped" /\ proc[1][j].st = "concluded"

\* The batches of the drain scenario: tasks n, n-1, .., 1 cut into pages.
DrainOrder(n) ==
    [k \in 1..((n + pageLimit - 1) \div pageLimit) |->
        [i \in 1..Min(pageLimit, n - (k - 1) * pageLimit) |->
            n - (k - 1) * pageLimit - (i - 1)]]

\* C8 (checked under SpecDrain): the drain scenario.  No batch exceeds
\* pageLimit, a batch is fetched only when all tasks of the batches before
\* are SUCCESS, and the activation ends with every task SUCCESS, no hand-off,
\* and the batches processed in creation order, newest first.
C8_Drain ==
    /\ \A k \in DOMAIN batchLog : Len(batchLog[k]) <= pageLimit
    /\ \A k \in 1..(Len(batchLog) - 1) :
          \A t \in Range(batchLog[k]) : store[t].taskStatus = "SUCCESS"
    /\ handoffs[1] = 0
    /\ pc[1] = "done" =>
          /\ \A t \in 1..issued : store[t].taskStatus = "SUCCESS"
          /\ batchLog = DrainOrder(issued)

\* The activation ended after draining 2 * pageLimit + 1 tasks in three batches.
C8_Witness ==
    /\ pc[1] = "done"
    /\ issued = 2 * pageLimit + 1
    /\ Len(batchLog) = 3
    /\ \A t \in 1..issued : store[t].taskStatus = "SUCCESS"

\* C9 (checked under SpecSaturated): the saturation scenario.  No task ever
\* becomes terminal, and the activation ends with every task PENDING and
\* exactly one hand-off.
C9_Saturated ==
    /\ \A t \in 1..issued : store[t].taskStatus \in {"PENDING", "TAKEN"}
    /\ pc[1] = "done" =>
          /\ \A t \in 1..issued : store[t].taskStatus = "PENDING"
          /\ handoffs[1] = 1

\* The activation ended; a task it had taken is PENDING again.
C9_Witness ==
    /\ pc[1] = "done"
    /\ handoffs[1] = 1
    /\ issued = pageLimit + 1
    /\ \E t \in 1..issued :
          store[t].taskStatus = "PENDING" /\ store[t].taskUpdated > store[t].taskCreated

\* C10 (checked under SpecCollide): what insert uniqueness would need - a
\* createTask of an id the table holds leaves the table as it was.
C10_InsertNeverReplaces ==
    [][\A taskId \in TaskIds, io \in IoResults :
          RecreateTask(taskId, io) => store' = store]_vars

\* The event asks for a dispatch: it has a Records array with an SNS record
\* or an INSERT record in it.
AsksForDispatch(event) ==
    /\ event.hasRecords
    /\ \E i \in DOMAIN event.Records :
          event.Records[i] \in {SnsRecord, StreamRecord("INSERT")}

\* C11 (checked under SpecRelay): the trigger relay.  Having handled an event
\* the trigger function has called for a dispatch exactly once if the event
\* holds an SNS record or an INSERT record, however many, and not at all
\* otherwise; no more messages are on ProcessTasksTopic than calls were made.
C11_TriggerRelay ==
    /\ trigger.st = "returned" =>
          trigger.calls = (IF AsksForDispatch(trigger.event) THEN 1 ELSE 0)
    /\ trigger.st # "returned" => trigger.calls = 0
    /\ processTopic <= trigger.calls

\* An event of several records, two of them INSERTs, was relayed as one dispatch.
C11_Witness ==
    /\ trigger.st = "returned"
    /\ processTopic = 1
    /\ \E i, j \in DOMAIN trigger.event.Records :
          /\ i # j
          /\ trigger.event.Records[i].eventName = "INSERT"
          /\ trigger.event.Records[j].eventName = "INSERT"
    /\ \E i \in DOMAIN trigger.event.Records : trigger.event.Records[i].eventName = "MODIFY"

C13_HandlerPromiseResolves ==
    \A w \in Solo : pc[w] = "done" => ~recursed[w]

\* The timer of the i-th processTask of w's batch is the next to fire.
TimerDue(w, i) ==
    /\ pc[w] = "batch"
    /\ i \in DOMAIN proc[w]
    /\ proc[w][i].st = "timer"
    /\ \A j \in 1..(i - 1) : proc[w][j].st # "timer"

\* C14 (checked under Spec): failure isolation within a batch.  Whatever
\* became of the tasks before it in the batch, a task whose timer is due can
\* have its lease attempted, and the loop does not leave the batch with an
\* attempt outstanding.
C14_FailureIsolation ==
    \A w \in Solo :
        /\ \A i \in 1..pageLimit : TimerDue(w, i) => ENABLED Lease(w, i, "ok")
        /\ pc[w] # "batch" => \A i \in DOMAIN proc[w] : proc[w][i].st # "timer"

\* The first task's lease failed and the second task of the batch was leased.
C14_Witness ==
    /\ pc[1] = "batch"
    /\ Len(proc[1]) = 2
    /\ proc[1][1].st = "skipped"
    /\ proc[1][2].st = "leased"

\* C15 (checked under SpecThrow): a throwing runner requeues.  No task is
\* ever marked SUCCESS or FAILURE, a processTask whose runner threw is bound
\* for PENDING, a task is TAKEN only while its processTask is under way, and
\* the batch and the loop go on.
C15_RunnerFailureRequeues ==
    /\ \A t \in 1..issued : store[t].taskStatus \in {"PENDING", "TAKEN"}
    /\ \A t \in 1..issued : store[t].taskStatus = "TAKEN" => Holders(t) # {}
    /\ \A w \in Solo :
          \A i \in DOMAIN proc[w] :
              proc[w][i].st = "ran" => proc[w][i].toState = "PENDING"
    /\ \A w \in Solo, i \in 1..pageLimit : TimerDue(w, i) => ENABLED Lease(w, i, "ok")
    /\ \A w \in Solo :
          pc[w] = "batch" /\ (\A i \in DOMAIN proc[w] : proc[w][i].st = "concluded")
              => ENABLED WaitAndContinue(w)

\* After a full batch on which the runner threw, every task is PENDING again
\* and the next poll is due.
C15_Witness ==
    /\ pc[1] = "poll"
    /\ Len(proc[1]) = pageLimit
    /\ \A i \in DOMAIN proc[1] : proc[1][i].st = "concluded"
    /\ \A t \in 1..issued : store[t].taskStatus = "PENDING"
    /\ \E t \in 1..issued : store[t].taskUpdated > store[t].taskCreated

\* C16 (checked under SpecOverlap): what telling contention from an I/O
\* failure would need - a lease attempt that fails on its condition logs no
\* TRANSITION_TASK_ERROR.
C16_ContentionNotAnError ==
    \A w \in Workers, i \in 1..pageLimit :
        TimerDue(w, i) /\ ~ConditionHolds(store[tasks[w][i]], "PENDING") =>
            "TRANSITION_TASK_ERROR" \notin transitionEvents(store, tasks[w][i], "PENDING", "ok")

\* C17 (checked under Spec): the lease brackets the runner.  A processTask
\* goes from its timer to the runner only through a lease that succeeded on
\* a PENDING task, runs the runner once, concludes once, and after a failed
\* lease does nothing more; the loop leaves the batch only when every
\* processTask has concluded or was skipped.
C17_LeaseBracketsRunner ==
    [][\A w \in Solo :
          pc[w] = "batch" =>
              /\ pc'[w] # "batch" =>
                    \A i \in DOMAIN proc[w] : proc[w][i].st \in {"skipped", "concluded"}
              /\ \A i \in DOMAIN proc[w] :
                    LET a == proc[w][i].st
                        b == proc'[w][i].st
                        t == tasks[w][i]
                    IN  /\ a = "timer" /\ b # a =>
                              \/ /\ b = "leased"
                                 /\ ConditionHolds(store[t], "PENDING")
                                 /\ store'[t].taskStatus = "TAKEN"
                              \/ /\ b = "skipped"
                                 /\ store' = store
                        /\ a = "leased" => b \in {"leased", "ran"}
                        /\ a = "leased" /\ b = "ran" => store' = store
                        /\ a = "ran" => b \in {"ran", "concluded"}
                        /\ a = "concluded" => b = "concluded"
                        /\ a = "skipped" =>
                              /\ b = "skipped"
                              /\ store'[t] = store[t] \/ store'[t] = NoTask]_vars

\* In one batch a lease failed and its task was skipped while the runner has
\* returned for another task, which awaits its concluding transition.
C17_Witness ==
    /\ pc[1] = "batch"
    /\ \E i, j \in DOMAIN proc[1] :
          /\ proc[1][i].st = "skipped"
          /\ proc[1][j].st = "ran"
          /\ store[tasks[1][j]] # NoTask
          /\ store[tasks[1][j]].taskStatus = "TAKEN"

\* C18 (checked under Spec): the frame of a transition.  On every table the
\* system reaches, a transition that succeeds sets the task's status and
\* taskUpdated and nothing else, and one that fails changes nothing; every
\* task keeps the creation time and the ttl it was born with.
C18_TransitionFrame ==
    /\ \A t \in 1..(issued + 1), from \in {"PENDING", "TAKEN"},
          to \in TaskStatuses, io \in IoResults :
          LET after == transitionTask(store, t, from, to, now, io) IN
          IF transitionOk(store, t, from, io)
          THEN /\ after[t].taskStatus = to
               /\ after[t].taskUpdated = now
               /\ after[t].taskCreated = store[t].taskCreated
               /\ after[t].ttl = store[t].ttl
               /\ \A u \in TaskIds \ {t} : after[u] = store[u]
          ELSE after = store
    /\ \A t \in TaskIds :
          store[t] # NoTask =>
              /\ store[t].taskCreated = born[t]
              /\ store[t].ttl = born[t] + ttlAmount

\* A task was transitioned after the clock moved; another was left alone.
C18_Witness ==
    \E t, u \in TaskIds :
        /\ t # u
        /\ store[t] # NoTask /\ store[u] # NoTask
        /\ store[t].taskStatus # "PENDING"
        /\ store[t].taskUpdated > store[t].taskCreated
        /\ store[u].taskStatus = "PENDING"
        /\ store[u].taskUpdated = store[u].taskCreated

\* C19 (checked under Spec): a disappearing task is tolerated.  A task of the
\* batch that expiry has deleted stays deleted, its lease attempt ends in a
\* skip, and a step of its processTask touches no sibling and not the loop.
C19_DisappearedTaskTolerated ==
    [][\A w \in Solo :
          pc[w] = "batch" =>
              \A i \in DOMAIN proc[w] :
                  store[tasks[w][i]] = NoTask =>
                      /\ store'[tasks[w][i]] = NoTask
                      /\ proc[w][i].st = "timer" => proc'[w][i].st \in {"timer", "skipped"}
                      /\ proc'[w][i] # proc[w][i] =>
                            /\ store' = store
                            /\ pc' = pc
                            /\ \A j \in DOMAIN proc[w] \ {i} : proc'[w][j] = proc[w][j]]_vars

\* One task of the batch expired before its lease and was skipped; another
\* expired while TAKEN and its processTask concluded all the same.
C19_Witness ==
    /\ pc[1] = "batch"
    /\ \E i, j \in DOMAIN proc[1] :
          /\ store[tasks[1][i]] = NoTask
          /\ proc[1][i].st = "skipped"
          /\ store[tasks[1][j]] = NoTask
          /\ proc[1][j].st = "concluded"

\* No task is PENDING and worker w is not processing a batch.
NothingToDo(w) == IndexPartition(store, "PENDING") = {} /\ pc[w] # "batch"

\* C20 (checked under SpecIdle): the idle exit is a no-op.  An activation
\* whose poll came back empty makes no hand-off, whether or not the time
\* limit was reached; and while no task is PENDING an activation, first or
\* duplicate, changes no task, starts no batch and emits no signal.
C20_IdleExitIsNoOp ==
    /\ [](\A w \in Solo :
            pc[w] \in {"tail", "done"} /\ Len(tasks[w]) = 0 =>
                pc[w] = "done" /\ handoffs[w] = 0)
    /\ [][\A w \in Solo :
            NothingToDo(w) =>
                /\ store' = store
                /\ triggerTopic' = triggerTopic
                /\ batchLog' = batchLog
                /\ handoffs'[w] = 0
                /\ pc'[w] \in {"idle", "poll", "done"}
                /\ \A i \in DOMAIN proc'[w] : proc'[w][i].st \in {"skipped", "concluded"}]_vars

\* The duplicate dispatch's activation has ended on its first poll, empty,
\* after the first activation had processed the tasks and the clock had moved.
C20_Witness ==
    /\ processTopic = 0
    /\ pc[1] = "done"
    /\ ~recursed[1]
    /\ Len(tasks[1]) = 0
    /\ handoffs[1] = 0
    /\ Len(batchLog) > 0
    /\ now > 0

\* Worker w has a lease attempt or a runner call ahead of it or under way.
Working(w) == \E i \in DOMAIN proc[w] : proc[w][i].st \in {"timer", "leased", "ran"}

\* C21 (checked under Spec): budget stop.  The time limit is judged at the
\* start of each iteration as elapsed time >= maxActiveTime.  Once it is
\* reached, the activation attempts no lease and invokes no runner, however
\* many tasks are PENDING: it polls once more and ends, by a hand-off if the
\* poll returned tasks and without one if it did not.
C21_BudgetStop ==
    [][\A w \in Solo :
          /\ pc[w] = "batch" /\ pc'[w] = "poll" =>
                (reachedTimeLimit'[w] <=> now - start[w] >= maxActiveTime)
          /\ reachedTimeLimit[w] =>
                /\ ~Working(w) /\ ~Working(w)'
                /\ pc[w] = "poll" =>
                      pc'[w] \in {"poll", IF Len(tasks'[w]) > 0 THEN "tail" ELSE "done"}
                /\ pc[w] = "tail" =>
                      \/ pc'[w] = "tail" /\ handoffs'[w] = handoffs[w]
                      \/ pc'[w] = "done" /\ handoffs'[w] = handoffs[w] + 1
                /\ pc[w] = "done" =>
                      \/ pc'[w] = "done" /\ handoffs'[w] = handoffs[w]
                      \/ pc'[w] = "idle" /\ ~reachedTimeLimit'[w]]_vars

\* An activation that had processed a batch and come over budget has ended
\* by a hand-off after its last poll, a full page of tasks still PENDING.
C21_Witness ==
    /\ reachedTimeLimit[1]
    /\ pc[1] = "done"
    /\ handoffs[1] = 1
    /\ Len(tasks[1]) = pageLimit
    /\ Cardinality(IndexPartition(store, "PENDING")) >= pageLimit
    /\ recursed[1]

\* Task t is TAKEN.
Taken(t) == store[t] # NoTask /\ store[t].taskStatus = "TAKEN"

\* C22 (checked under SpecStranded): stranded leases are never re-leased.  A
\* TAKEN task is never in the batch a query returns; it changes only by its
\* owner's concluding transition or by its deletion; and when it has no owner
\* left (the activation was killed, or the concluding transition failed) no
\* processTask changes it or comes to hold it.
C22_StrandedNeverReleased ==
    [][\A t \in TaskIds :
          Taken(t) =>
              /\ \A w \in Solo : tasks'[w] # tasks[w] => t \notin Range(tasks'[w])
              /\ store'[t] \notin {store[t], NoTask} =>
                    \E h \in Holders(t) :
                        /\ proc[h[1]][h[2]].st = "ran"
                        /\ proc'[h[1]][h[2]].st = "concluded"
                        /\ store'[t].taskStatus = proc[h[1]][h[2]].toState
              /\ Holders(t) = {} =>
                    /\ store'[t] \in {store[t], NoTask}
                    /\ Holders(t)' = {}]_vars

\* A task stranded by a kill (no call to the table has failed), and a later
\* activation that polled another task and holds it.
C22_Witness ==
    /\ ~faulted
    /\ \E t, u \in TaskIds :
          /\ Taken(t)
          /\ Holders(t) = {}
          /\ tasks[1] = <<u>>
          /\ <<1, 1>> \in Holders(u)

\* The calls of fakeTaskRunner that are running.
InFlight == {c \in Runs : runs[c] = "running"}

\* C23 (checked under SpecRunner): fake runner admission control.  Under any
\* interleaving of calls, 0 <= activeTaskCount <= fakeMaxActiveTasks, and the
\* count is the number of calls in flight (0 when there is none); a call made
\* at the maximum returns PENDING and leaves the count alone; an admitted call
\* raises the count by one, and lowers it by one when it completes, returning
\* SUCCESS.
C23_AdmissionControl ==
    /\ [](/\ 0 <= activeTaskCount
          /\ activeTaskCount <= fakeMaxActiveTasks
          /\ activeTaskCount = Cardinality(InFlight))
    /\ [][\A c \in Runs :
            /\ runs[c] = "none" /\ runs'[c] # "none" =>
                  IF activeTaskCount = fakeMaxActiveTasks
                  THEN runs'[c] = "PENDING" /\ activeTaskCount' = activeTaskCount
                  ELSE runs'[c] = "running" /\ activeTaskCount' = activeTaskCount + 1
            /\ runs[c] = "running" /\ runs'[c] # "running" =>
                  runs'[c] = "SUCCESS" /\ activeTaskCount' = activeTaskCount - 1
            /\ runs[c] \in {"PENDING", "SUCCESS"} /\ runs'[c] # runs[c] =>
                  runs'[c] = "none" /\ activeTaskCount' = activeTaskCount]_vars

\* A call was turned away at the maximum, and since then every admitted call
\* has completed: the count is back to 0 with the PENDING answer not yet taken.
C23_Witness ==
    /\ activeTaskCount = 0
    /\ \E c \in Runs : runs[c] = "PENDING"
    /\ Cardinality({c \in Runs : runs[c] = "SUCCESS"}) = fakeMaxActiveTasks

\* An activation that will still poll (it is about to, or it is processing
\* a batch, after which it polls again) or that is sending its hand-off.
WillPoll(w) == pc[w] \in {"poll", "batch", "tail"}

\* A signal that will start an activation is on its way: an INSERT record of
\* the stream, a hand-off on TriggerTopic, or a dispatch on ProcessTasksTopic.
SignalPending == streamInserts > 0 \/ triggerTopic > 0 \/ processTopic > 0

\* C24 (checked under SpecWake): no lost wake-up.  With queries and
\* publishes that do not fail and no activation killed, whenever a task is
\* PENDING there is an activation that will still poll or a signal on its way
\* that will start one; and an activation whose last poll returned tasks ends
\* only after its hand-off, which puts one message on TriggerTopic.
C24_NoLostWakeup ==
    /\ [](IndexPartition(store, "PENDING") # {} =>
             SignalPending \/ \E w \in Solo : WillPoll(w))
    /\ [](\A w \in Solo : pc[w] = "done" /\ Len(tasks[w]) > 0 => handoffs[w] = 1)
    /\ [][\A w \in Solo :
            /\ handoffs'[w] = handoffs[w] + 1 => triggerTopic' = triggerTopic + 1
            /\ pc[w] # "idle" /\ pc'[w] = "idle" =>
                  pc[w] = "done" /\ (Len(tasks[w]) > 0 => handoffs[w] = 1)]_vars

\* A task is PENDING again (the runner turned it down) with no activation
\* running: the activation that requeued it has ended over budget, and its
\* hand-off on TriggerTopic is the only signal left.
C24_Witness ==
    /\ \E t \in IndexPartition(store, "PENDING") : store[t].taskUpdated > store[t].taskCreated
    /\ \A w \in Solo : pc[w] = "idle"
    /\ streamInserts = 0
    /\ processTopic = 0
    /\ triggerTopic = 1

====
